---- MODULE Spec2Model ----
(***************************************************************************)
(* Model of deepchem/nn/keras/regularizers.py: one regularizer instance of *)
(* class WeightRegularizer, ActivityRegularizer or EigenvalueRegularizer,  *)
(* its attributes, and the operations set_param, set_layer and __call__.   *)
(*                                                                         *)
(* Numbers.  Tensor entries, coefficients and losses are integers; the     *)
(* Rayleigh quotient is a rational kept in lowest terms; a returned value  *)
(* is  base + coef * sqrt(rad[1] / rad[2])  or not-a-number.               *)
(***************************************************************************)
EXTENDS Integers, Sequences, FiniteSets

VARIABLES cls, l1, l2, k, p, layer, call

vars == <<cls, l1, l2, k, p, layer, call>>

(* ------------------------------ bounds -------------------------------- *)
MaxCoef == 1
MaxGain == 2
MaxLoss == 1
MaxDim == 2
MaxOutputs == 2

(* ------------------------------ values -------------------------------- *)
\* An attribute the instance does not have (hasattr is False).
NoAttr == [tag |-> "noattr", shape |-> <<>>, data |-> <<>>, outputs |-> <<>>]
\* Python's None.
None == [tag |-> "none", shape |-> <<>>, data |-> <<>>, outputs |-> <<>>]

\* The entries are stored as a sequence, row by row.
Tensor(sh, d) == [tag |-> "tensor", shape |-> sh, data |-> d \o <<>>, outputs |-> <<>>]
Layer(outs) == [tag |-> "layer", shape |-> <<>>, data |-> <<>>, outputs |-> outs]

\* A finite number  b + c * sqrt(r[1] / r[2]).
Real(b, c, r) == [kind |-> "real", base |-> b, coef |-> c, rad |-> r, err |-> ""]
Num(b) == Real(b, 0, <<1, 1>>)
NaN == [kind |-> "nan", base |-> 0, coef |-> 0, rad |-> <<1, 1>>, err |-> ""]
Raise(e) == [kind |-> "raise", base |-> 0, coef |-> 0, rad |-> <<1, 1>>, err |-> e]
RetNone == [kind |-> "none", base |-> 0, coef |-> 0, rad |-> <<1, 1>>, err |-> ""]

ReuseError == "Regularizers cannot be reused"
UnboundError == "Need to call set_param / set_layer before calling the instance"
UnsupportedRankError == "Eigenvalue Decay regularizer is only available for dense and embedding layers"
AttributeError == "AttributeError: object has no attribute 'p'"
ValueError == "ValueError: shape of WW is not (dim1, dim2)"

(* ------------------- tensor backend (K) and layers --------------------- *)
Abs(x) == IF x < 0 THEN -x ELSE x

RECURSIVE SeqSum(_)
SeqSum(s) == IF Len(s) = 0 THEN 0 ELSE Head(s) + SeqSum(Tail(s))

RECURSIVE Gcd(_, _)
Gcd(a, b) == IF b = 0 THEN a ELSE Gcd(b, a % b)

RECURSIVE SeqGcd(_)
SeqGcd(s) == IF Len(s) = 0 THEN 0 ELSE Gcd(Abs(Head(s)), SeqGcd(Tail(s)))

\* Largest r in lo..hi with r * r <= n (lo * lo <= n is given).
RECURSIVE SqrtFloor(_, _, _)
SqrtFloor(n, lo, hi) ==
  IF lo >= hi THEN lo
  ELSE LET mid == (lo + hi + 1) \div 2
       IN IF mid * mid <= n THEN SqrtFloor(n, mid, hi) ELSE SqrtFloor(n, lo, mid - 1)

Sqrt(n) == SqrtFloor(n, 0, IF n < 46340 THEN n ELSE 46340)
IsSquare(n) == Sqrt(n) * Sqrt(n) = n

\* K.ndim
ndim(W) == Len(W.shape)

\* Entry (i, j) of a matrix stored row by row.
At(W, i, j) == W.data[(i - 1) * W.shape[2] + j]

\* K.transpose of a matrix
transpose(W) ==
  LET r == W.shape[1]
      c == W.shape[2]
  IN Tensor(<<c, r>>, [x \in 1..(r * c) |-> At(W, ((x - 1) % r) + 1, ((x - 1) \div r) + 1)])

\* K.dot of two matrices
dot(A, B) ==
  LET r == A.shape[1]
      m == A.shape[2]
      c == B.shape[2]
  IN Tensor(<<r, c>>,
            [x \in 1..(r * c) |->
               SeqSum([t \in 1..m |-> At(A, ((x - 1) \div c) + 1, t) * At(B, t, ((x - 1) % c) + 1)])])

\* K.ones
ones(r, c) == Tensor(<<r, c>>, [x \in 1..(r * c) |-> 1])

\* K.sum(coef * K.abs(x))
sum_abs(coef, x) == SeqSum([i \in 1..Len(x.data) |-> coef * Abs(x.data[i])])

\* K.sum(coef * K.square(x))
sum_square(coef, x) == SeqSum([i \in 1..Len(x.data) |-> coef * (x.data[i] * x.data[i])])

\* K.in_train_phase
in_train_phase(x, alt, training) == IF training THEN x ELSE alt

\* len(layer.inbound_nodes)
inbound_nodes_len(ly) == Len(ly.outputs)

\* layer.get_output_at(i), i counted from 0
get_output_at(ly, i) == ly.outputs[i + 1]

\* Variant: the quotient without its denominator.
rayleigh_unnormalised(a, v) ==
  LET g == SeqGcd(v.data)
  IN IF g = 0 THEN <<0, 0>>
     ELSE LET vr == Tensor(v.shape, [i \in 1..Len(v.data) |-> v.data[i] \div g])
              ar == Tensor(a.shape, [i \in 1..Len(a.data) |-> a.data[i] \div g])
          IN <<At(dot(transpose(ar), vr), 1, 1), 1>>

\* The tensor division of two 1 x 1 products  (a . v) / (v . v)  as a rational
\* in lowest terms, <<0, 0>> standing for 0/0 (not-a-number).  The factor
\* common to the entries of v is cancelled before the products are formed;
\* the quotient is the same.
rayleigh(a, v) ==
  LET g == SeqGcd(v.data)
  IN IF g = 0 THEN <<0, 0>>
     ELSE LET vr == Tensor(v.shape, [i \in 1..Len(v.data) |-> v.data[i] \div g])
              ar == Tensor(a.shape, [i \in 1..Len(a.data) |-> a.data[i] \div g])
              num == At(dot(transpose(ar), vr), 1, 1)
              den == At(dot(transpose(vr), vr), 1, 1)
              h == Gcd(Abs(num), den)
          IN <<num \div h, den \div h>>

\* loss + (q ** 0.5) * gain
add_sqrt_penalty(loss, q, gain) ==
  IF q = <<0, 0>> THEN NaN
  ELSE IF IsSquare(q[1]) /\ IsSquare(q[2]) /\ (gain * Sqrt(q[1])) % Sqrt(q[2]) = 0
       THEN Num(loss + (gain * Sqrt(q[1])) \div Sqrt(q[2]))
       ELSE IF gain = 0 THEN Num(loss) ELSE Real(loss, gain, q)

(* -------------------------- outcome of a call -------------------------- *)
\* ret: what the operation returned or raised; dots, sums: the numbers of
\* K.dot and K.sum evaluations; mults: the products WW . v that updated the
\* eigenvector estimate; visits: the output indices read; start: the initial
\* eigenvector estimate.
Out(ret, dots, sums, mults, visits, start) ==
  [ret |-> ret, dots |-> dots, sums |-> sums, mults |-> mults, visits |-> visits,
   start |-> start]

Failed(e, dots) == Out(Raise(e), dots, 0, 0, <<>>, <<>>)

(* ------------------------ EigenvalueRegularizer ------------------------ *)
power == 9

\* for n in range(count): main_eigenvect = K.dot(WW, main_eigenvect)
RECURSIVE power_loop(_, _, _)
power_loop(WW, v, count) ==
  IF count = 0 THEN [v |-> v, n |-> 0]
  ELSE LET rest == power_loop(WW, dot(WW, v), count - 1)
       IN [v |-> rest.v, n |-> rest.n + 1]

\* Variant: the penalized loss is returned in both phases.
EigenvalueRegularizer_call_any_phase(self_p, self_k, loss, training) ==
  LET W == self_p
  IN IF W.tag = "noattr" THEN Failed(AttributeError, 0)
     ELSE IF ndim(W) > 2 THEN Failed(UnsupportedRankError, 0)
     ELSE IF ndim(W) < 2 THEN Failed(ValueError, 1)
     ELSE LET WW == dot(transpose(W), W)
              o == ones(WW.shape[1], 1)
              loop == power_loop(WW, dot(WW, o), power - 1)
              WWd == dot(WW, loop.v)
          IN Out(add_sqrt_penalty(loss, rayleigh(WWd, loop.v), self_k),
                 1 + 1 + loop.n + 1 + 2, 0, 1 + loop.n, <<>>, o.data)

\* Variant: the rank is checked only where the penalty is used (training).
EigenvalueRegularizer_call_late_check(self_p, self_k, loss, training) ==
  LET W == self_p
  IN IF W.tag = "noattr" THEN Failed(AttributeError, 0)
     ELSE IF ndim(W) > 2
          THEN IF training THEN Failed(UnsupportedRankError, 0)
               ELSE Out(Num(loss), 0, 0, 0, <<>>, <<>>)
     ELSE IF ndim(W) < 2 THEN Failed(ValueError, 1)
     ELSE LET WW == dot(transpose(W), W)
              o == ones(WW.shape[1], 1)
              loop == power_loop(WW, dot(WW, o), power - 1)
              WWd == dot(WW, loop.v)
          IN Out(in_train_phase(add_sqrt_penalty(loss, rayleigh(WWd, loop.v), self_k),
                                Num(loss), training),
                 1 + 1 + loop.n + 1 + 2, 0, 1 + loop.n, <<>>, o.data)

\* Variant: the loop runs  range(power)  instead of  range(power - 1).
EigenvalueRegularizer_call_extra_step(self_p, self_k, loss, training) ==
  LET W == self_p
  IN IF W.tag = "noattr" THEN Failed(AttributeError, 0)
     ELSE IF ndim(W) > 2 THEN Failed(UnsupportedRankError, 0)
     ELSE IF ndim(W) < 2 THEN Failed(ValueError, 1)
     ELSE LET WW == dot(transpose(W), W)
              o == ones(WW.shape[1], 1)
              loop == power_loop(WW, dot(WW, o), power)
              WWd == dot(WW, loop.v)
          IN Out(in_train_phase(add_sqrt_penalty(loss, rayleigh(WWd, loop.v), self_k),
                                Num(loss), training),
                 1 + 1 + loop.n + 1 + 2, 0, 1 + loop.n, <<>>, o.data)

EigenvalueRegularizer_call(self_p, self_k, loss, training) ==
  LET W == self_p
  IN IF W.tag = "noattr" THEN Failed(AttributeError, 0)
     ELSE IF ndim(W) > 2 THEN Failed(UnsupportedRankError, 0)
     ELSE IF ndim(W) < 2 THEN Failed(ValueError, 1)
     ELSE LET WW == dot(transpose(W), W)
              dim1 == WW.shape[1]
              o == ones(dim1, 1)
              first == dot(WW, o)
              loop == power_loop(WW, first, power - 1)
              main_eigenvect == loop.v
              WWd == dot(WW, main_eigenvect)
              main_eigenval == rayleigh(WWd, main_eigenvect)
              regularized_loss == add_sqrt_penalty(loss, main_eigenval, self_k)
          IN Out(in_train_phase(regularized_loss, Num(loss), training),
                 1 + 1 + loop.n + 1 + 2, 0, 1 + loop.n, <<>>, o.data)

(* -------------------------- WeightRegularizer -------------------------- *)
\* Variant: the l2 term sums absolute values instead of squares.
WeightRegularizer_call_abs_twice(self_p, self_l1, self_l2, loss, training) ==
  IF self_p.tag = "none" THEN Failed(UnboundError, 0)
  ELSE LET after_l1 == IF self_l1 # 0 THEN loss + sum_abs(self_l1, self_p) ELSE loss
           after_l2 == IF self_l2 # 0 THEN after_l1 + sum_abs(self_l2, self_p)
                       ELSE after_l1
           sums == (IF self_l1 # 0 THEN 1 ELSE 0) + (IF self_l2 # 0 THEN 1 ELSE 0)
       IN Out(in_train_phase(Num(after_l2), Num(loss), training), 0, sums, 0, <<>>, <<>>)

WeightRegularizer_call(self_p, self_l1, self_l2, loss, training) ==
  IF self_p.tag = "none" THEN Failed(UnboundError, 0)
  ELSE LET after_l1 == IF self_l1 # 0 THEN loss + sum_abs(self_l1, self_p) ELSE loss
           after_l2 == IF self_l2 # 0 THEN after_l1 + sum_square(self_l2, self_p)
                       ELSE after_l1
           sums == (IF self_l1 # 0 THEN 1 ELSE 0) + (IF self_l2 # 0 THEN 1 ELSE 0)
       IN Out(in_train_phase(Num(after_l2), Num(loss), training), 0, sums, 0, <<>>, <<>>)

(* ------------------------- ActivityRegularizer ------------------------- *)
\* for i in range(count): ...   from index i on, with the running loss acc
RECURSIVE activity_loop(_, _, _, _, _, _)
activity_loop(ly, self_l1, self_l2, i, count, acc) ==
  IF i >= count THEN [loss |-> acc, sums |-> 0, visits |-> <<>>]
  ELSE LET output == get_output_at(ly, i)
           after_l1 == IF self_l1 # 0 THEN acc + sum_abs(self_l1, output) ELSE acc
           after_l2 == IF self_l2 # 0 THEN after_l1 + sum_square(self_l2, output)
                       ELSE after_l1
           sums == (IF self_l1 # 0 THEN 1 ELSE 0) + (IF self_l2 # 0 THEN 1 ELSE 0)
           rest == activity_loop(ly, self_l1, self_l2, i + 1, count, after_l2)
       IN [loss |-> rest.loss, sums |-> sums + rest.sums, visits |-> <<i>> \o rest.visits]

\* Variant: the loop runs  range(1, count)  and misses output 0.
ActivityRegularizer_call_skip_first(self_layer, self_l1, self_l2, loss, training) ==
  IF self_layer.tag = "none" THEN Failed(UnboundError, 0)
  ELSE LET loop == activity_loop(self_layer, self_l1, self_l2, 1,
                                 inbound_nodes_len(self_layer), loss)
       IN Out(in_train_phase(Num(loop.loss), Num(loss), training),
              0, loop.sums, 0, loop.visits, <<>>)

ActivityRegularizer_call(self_layer, self_l1, self_l2, loss, training) ==
  IF self_layer.tag = "none" THEN Failed(UnboundError, 0)
  ELSE LET loop == activity_loop(self_layer, self_l1, self_l2, 0,
                                 inbound_nodes_len(self_layer), loss)
       IN Out(in_train_phase(Num(loop.loss), Num(loss), training),
              0, loop.sums, 0, loop.visits, <<>>)

(* ------------------------------- inputs -------------------------------- *)
Classes == {"WeightRegularizer", "ActivityRegularizer", "EigenvalueRegularizer"}

MatricesOver(r, c, E) == { Tensor(<<r, c>>, d) : d \in [1..(r * c) -> E] }

\* The n x n identity and zero matrices.
Identity(n) ==
  Tensor(<<n, n>>, [x \in 1..(n * n) |-> IF (x - 1) \div n = (x - 1) % n THEN 1 ELSE 0])
Zero(n) == Tensor(<<n, n>>, [x \in 1..(n * n) |-> 0])

\* Weight tensors a layer may hand to set_param: matrices, bias vectors
\* (rank 1) and convolution kernels (rank 3).
ParamTensors ==
  MatricesOver(1, 1, {-2, -1, 0, 1, 2}) \cup MatricesOver(1, 2, {-1, 0, 1})
    \cup MatricesOver(2, 1, {-1, 0, 1}) \cup MatricesOver(2, 2, {0, 1})
    \cup { Identity(n) : n \in 1..MaxDim } \cup { Zero(n) : n \in 1..MaxDim }
    \cup { Tensor(<<2>>, d) : d \in [1..2 -> {-2, 1}] }
    \cup { Tensor(<<1, 1, 2>>, d) : d \in [1..2 -> {0, 1}] }

\* Output tensors of a layer, and layers called at 0..MaxOutputs sites.
OutputTensors == { Tensor(<<1, 2>>, d) : d \in {<<0, 0>>, <<1, -1>>, <<-2, 1>>} }

RECURSIVE SeqsUpTo(_, _)
SeqsUpTo(S, n) ==
  IF n = 0 THEN {<<>>}
  ELSE LET shorter == SeqsUpTo(S, n - 1)
       IN shorter \cup { Append(q, x) : q \in shorter, x \in S }

Layers == { Layer(outs) : outs \in SeqsUpTo(OutputTensors, MaxOutputs) }

\* Arguments of the setter a class inherits unchanged from Regularizer.
OtherTensors == { Identity(1), Tensor(<<2>>, <<1, -1>>) }
OtherLayers == { Layer(<<>>), Layer(<<Tensor(<<1, 2>>, <<1, -1>>)>>) }

Losses == 0..MaxLoss

(* -------------------------------- state -------------------------------- *)
\* The record of the last operation on the instance.
Record(op, loss, training, out) ==
  [op |-> op, loss |-> loss, training |-> training, ret |-> out.ret, dots |-> out.dots,
   sums |-> out.sums, mults |-> out.mults, visits |-> out.visits, start |-> out.start]

Returned(ret) == Out(ret, 0, 0, 0, <<>>, <<>>)

\* __init__ of the three classes.  An attribute a class does not set
\* (l1, l2 of EigenvalueRegularizer, k of the others) is never read and is 0.
Init ==
  /\ cls \in Classes
  /\ l1 \in (IF cls = "EigenvalueRegularizer" THEN {0} ELSE 0..MaxCoef)
  /\ l2 \in (IF cls = "EigenvalueRegularizer" THEN {0} ELSE 0..MaxCoef)
  /\ k \in (IF cls = "EigenvalueRegularizer" THEN 0..MaxGain ELSE {0})
  /\ p = (IF cls = "WeightRegularizer" THEN None ELSE NoAttr)
  /\ layer = (IF cls = "ActivityRegularizer" THEN None ELSE NoAttr)
  /\ call = Record("init", 0, FALSE, Returned(RetNone))

(* ------------------------------- set_param ----------------------------- *)
EigenvalueRegularizer_set_param(t) ==
  /\ cls = "EigenvalueRegularizer"
  /\ IF p.tag # "noattr"
     THEN /\ call' = Record("set_param", 0, FALSE, Failed(ReuseError, 0))
          /\ UNCHANGED p
     ELSE /\ p' = t
          /\ call' = Record("set_param", 0, FALSE, Returned(RetNone))
  /\ UNCHANGED <<cls, l1, l2, k, layer>>

\* Variant: set_param without the reuse guard.
WeightRegularizer_set_param_unguarded(t) ==
  /\ cls = "WeightRegularizer"
  /\ p' = t
  /\ call' = Record("set_param", 0, FALSE, Returned(RetNone))
  /\ UNCHANGED <<cls, l1, l2, k, layer>>

WeightRegularizer_set_param(t) ==
  /\ cls = "WeightRegularizer"
  /\ IF p.tag # "none"
     THEN /\ call' = Record("set_param", 0, FALSE, Failed(ReuseError, 0))
          /\ UNCHANGED p
     ELSE /\ p' = t
          /\ call' = Record("set_param", 0, FALSE, Returned(RetNone))
  /\ UNCHANGED <<cls, l1, l2, k, layer>>

\* ActivityRegularizer does not override set_param.
Regularizer_set_param(t) ==
  /\ cls = "ActivityRegularizer"
  /\ p' = t
  /\ call' = Record("set_param", 0, FALSE, Returned(RetNone))
  /\ UNCHANGED <<cls, l1, l2, k, layer>>

(* ------------------------------- set_layer ----------------------------- *)
ActivityRegularizer_set_layer(ly) ==
  /\ cls = "ActivityRegularizer"
  /\ IF layer.tag # "none"
     THEN /\ call' = Record("set_layer", 0, FALSE, Failed(ReuseError, 0))
          /\ UNCHANGED layer
     ELSE /\ layer' = ly
          /\ call' = Record("set_layer", 0, FALSE, Returned(RetNone))
  /\ UNCHANGED <<cls, l1, l2, k, p>>

\* WeightRegularizer and EigenvalueRegularizer do not override set_layer.
Regularizer_set_layer(ly) ==
  /\ cls \in {"WeightRegularizer", "EigenvalueRegularizer"}
  /\ layer' = ly
  /\ call' = Record("set_layer", 0, FALSE, Returned(RetNone))
  /\ UNCHANGED <<cls, l1, l2, k, p>>

(* ------------------------------- __call__ ------------------------------ *)
Call_EigenvalueRegularizer(loss, training) ==
  /\ cls = "EigenvalueRegularizer"
  /\ call' = Record("call", loss, training, EigenvalueRegularizer_call(p, k, loss, training))
  /\ UNCHANGED <<cls, l1, l2, k, p, layer>>

\* Variant: a successful call releases the bound tensor.
Call_WeightRegularizer_releasing(loss, training) ==
  /\ cls = "WeightRegularizer"
  /\ call' = Record("call", loss, training, WeightRegularizer_call(p, l1, l2, loss, training))
  /\ p' = None
  /\ UNCHANGED <<cls, l1, l2, k, layer>>

Call_WeightRegularizer(loss, training) ==
  /\ cls = "WeightRegularizer"
  /\ call' = Record("call", loss, training, WeightRegularizer_call(p, l1, l2, loss, training))
  /\ UNCHANGED <<cls, l1, l2, k, p, layer>>

Call_ActivityRegularizer(loss, training) ==
  /\ cls = "ActivityRegularizer"
  /\ call' = Record("call", loss, training,
                    ActivityRegularizer_call(layer, l1, l2, loss, training))
  /\ UNCHANGED <<cls, l1, l2, k, p, layer>>

Next ==
  \/ \E t \in ParamTensors : EigenvalueRegularizer_set_param(t)
  \/ \E t \in ParamTensors : WeightRegularizer_set_param(t)
  \/ \E t \in OtherTensors : Regularizer_set_param(t)
  \/ \E ly \in Layers : ActivityRegularizer_set_layer(ly)
  \/ \E ly \in OtherLayers : Regularizer_set_layer(ly)
  \/ \E loss \in Losses, training \in BOOLEAN : Call_EigenvalueRegularizer(loss, training)
  \/ \E loss \in Losses, training \in BOOLEAN : Call_WeightRegularizer(loss, training)
  \/ \E loss \in Losses, training \in BOOLEAN : Call_ActivityRegularizer(loss, training)

Spec == Init /\ [][Next]_vars

(* ------------------------------- claims -------------------------------- *)
\* The bind operation the class itself defines, and the attribute it sets.
OwnBind == IF cls = "ActivityRegularizer" THEN "set_layer" ELSE "set_param"
OwnTarget == IF cls = "ActivityRegularizer" THEN layer ELSE p
Bound == OwnTarget.tag \in {"tensor", "layer"}
\* No bind has happened: the attribute is as __init__ left it.
NeverBound == OwnTarget.tag \in {"none", "noattr"}
Applied == call.op = "call"

\* C1: once the instance's own bind operation has succeeded, every later call
\* of it raises the reuse error and the bound target stays the first one.
C1_BindOnce ==
  [][Bound => /\ OwnTarget' = OwnTarget
              /\ (call'.op = OwnBind => call'.ret = Raise(ReuseError))]_vars

C1_Witness ==
  /\ cls = "EigenvalueRegularizer"
  /\ Bound
  /\ call.op = "set_param"
  /\ call.ret = Raise(ReuseError)

\* C2: __call__ on an instance that was never bound raises the
\* unbound-regularizer error, for all three classes and in both phases.
C2_UnboundRaisesUnboundError ==
  (Applied /\ NeverBound) => call.ret = Raise(UnboundError)

SumAbs(x) == SeqSum([i \in 1..Len(x.data) |-> Abs(x.data[i])])
SumSquares(x) == SeqSum([i \in 1..Len(x.data) |-> x.data[i] * x.data[i]])
NonZero(c) == IF c = 0 THEN 0 ELSE 1

C4_WeightPenalty ==
  (cls = "WeightRegularizer" /\ Applied /\ call.training /\ Bound)
  => /\ call.ret = Num(call.loss + l1 * SumAbs(p) + l2 * SumSquares(p))
     /\ call.sums = NonZero(l1) + NonZero(l2)
     /\ (l1 = 0 /\ l2 = 0 => call.ret = Num(call.loss))

C4_Witness ==
  /\ cls = "WeightRegularizer"
  /\ Applied
  /\ call.training
  /\ l1 = 1
  /\ l2 = 1
  /\ p = Tensor(<<2>>, <<-2, 1>>)
  /\ call.loss = 1
  /\ call.ret = Num(9)

\* C5: __call__ leaves the instance as it was (target, coefficients, bound
\* status), whether it returns or raises, and a repeated call with the same
\* loss in the same phase returns the same result.
C5_CallIsPure ==
  [][/\ call'.op = "call" => UNCHANGED <<cls, l1, l2, k, p, layer>>
     /\ (call.op = "call" /\ call'.op = "call" /\ call'.loss = call.loss
           /\ call'.training = call.training) => call'.ret = call.ret]_vars

C5_Witness ==
  /\ cls = "ActivityRegularizer"
  /\ Applied
  /\ Bound
  /\ call.training
  /\ call.ret.kind = "real"
  /\ call.ret # Num(call.loss)

\* C6: an EigenvalueRegularizer bound to a tensor of more than 2 dimensions
\* raises the unsupported-rank error in both phases before any matrix product;
\* a tensor of rank <= 2 never raises it.
C6_RankCheck ==
  (cls = "EigenvalueRegularizer" /\ Applied /\ Bound)
  => IF ndim(p) > 2
     THEN call.ret = Raise(UnsupportedRankError) /\ call.dots = 0
     ELSE call.ret # Raise(UnsupportedRankError)

C6_Witness ==
  /\ cls = "EigenvalueRegularizer"
  /\ Applied
  /\ Bound
  /\ ndim(p) = 3
  /\ ~call.training
  /\ call.ret = Raise(UnsupportedRankError)

\* C7: bound to the n x n identity, an EigenvalueRegularizer with gain k
\* returns loss + k in training phase.
C7_IdentityPenalty ==
  (cls = "EigenvalueRegularizer" /\ Applied /\ call.training
     /\ \E n \in 1..MaxDim : p = Identity(n))
  => call.ret = Num(call.loss + k)

C7_Witness ==
  /\ cls = "EigenvalueRegularizer"
  /\ Applied
  /\ call.training
  /\ p = Identity(MaxDim)
  /\ k = MaxGain
  /\ call.ret = Num(call.loss + MaxGain)

\* C8: bound to a zero matrix, an EigenvalueRegularizer returns the loss with
\* penalty 0 in training phase (no not-a-number, no error).
IsZeroMatrix(t) ==
  t.tag = "tensor" /\ ndim(t) = 2 /\ \A i \in 1..Len(t.data) : t.data[i] = 0

C8_ZeroMatrixPenaltyZero ==
  (cls = "EigenvalueRegularizer" /\ Applied /\ call.training /\ IsZeroMatrix(p))
  => call.ret = Num(call.loss)

\* C9: in training phase a bound ActivityRegularizer returns the loss plus,
\* for every output index 0..count-1 of the layer, l1 * sum(|output|) +
\* l2 * sum(output^2); each output is read once; with no output the result
\* is the loss.
RECURSIVE OutputsPenalty(_, _, _)
OutputsPenalty(outs, a, b) ==
  IF Len(outs) = 0 THEN 0
  ELSE a * SumAbs(Head(outs)) + b * SumSquares(Head(outs)) + OutputsPenalty(Tail(outs), a, b)

C9_ActivityPenalty ==
  (cls = "ActivityRegularizer" /\ Applied /\ call.training /\ Bound)
  => /\ call.ret = Num(call.loss + OutputsPenalty(layer.outputs, l1, l2))
     /\ call.visits = [i \in 1..Len(layer.outputs) |-> i - 1]
     /\ call.sums = Len(layer.outputs) * (NonZero(l1) + NonZero(l2))
     /\ (Len(layer.outputs) = 0 => call.ret = Num(call.loss))

C9_Witness ==
  /\ cls = "ActivityRegularizer"
  /\ Applied
  /\ call.training
  /\ l1 = 1
  /\ l2 = 1
  /\ layer = Layer(<<Tensor(<<1, 2>>, <<1, -1>>), Tensor(<<1, 2>>, <<-2, 1>>)>>)
  /\ call.loss = 0
  /\ call.visits = <<0, 1>>
  /\ call.ret = Num(4 + 8)

\* C10: the eigenvector estimate starts as the all-ones column of length
\* dim (the second dimension of W) and is multiplied by WW exactly 9 times;
\* one further product WW . v and the two products of the quotient follow.
C10_NineMultiplications ==
  (cls = "EigenvalueRegularizer" /\ Applied /\ Bound /\ ndim(p) = 2)
  => /\ call.start = [i \in 1..p.shape[2] |-> 1]
     /\ call.mults = 9
     /\ call.dots = 1 + 9 + 1 + 2

\* W = [[1, 1], [0, 1]]: after 9 multiplications the quotient is
\* 165580141 / 63245986.
C10_Witness ==
  /\ cls = "EigenvalueRegularizer"
  /\ Applied
  /\ call.training
  /\ p = Tensor(<<2, 2>>, <<1, 1, 0, 1>>)
  /\ k = 1
  /\ call.mults = 9
  /\ call.ret = Real(call.loss, 1, <<165580141, 63245986>>)

====
